---- MODULE Spec2Model ----
(***************************************************************************)
(* Model of parsec-tool's `sign` subcommand (src/subcommands/sign.rs).     *)
(*                                                                         *)
(* One run of Sign::run is a linear sequence of steps; `pc` is the         *)
(* position of the run in the function body.  The two collaborators        *)
(* (BasicClient::key_attributes and BasicClient::psa_sign_hash) answer     *)
(* nondeterministically: any permitted algorithm or any service error for  *)
(* the lookup, any byte string or any service error for the signing call.  *)
(* Byte strings are sequences of integers in 0..255.                       *)
(***************************************************************************)
EXTENDS Integers, Sequences, FiniteSets, TLC

\* ------------------------------------------------------------------ bounds

\* Longest raw signature (in bytes) drawn from the small byte alphabet.
MaxSigLen == 4

\* Longest input message (in bytes).
MaxMsgLen == 1

\* Size of the scratch buffer handed to picky_asn1_der::to_bytes.
ScratchSize == 1000

\* ------------------------------------------------------------------ inputs

KeyNames == {"k1", "k2"}

MsgBytes == {97}

SigBytes == {0, 1, 128}

SeqsUpTo(S, n) == UNION {[1..k -> S] : k \in 0..n}

Messages == SeqsUpTo(MsgBytes, MaxMsgLen)

\* Signatures whose ASN.1 form is around the size of the scratch buffer:
\* a 988-byte signature of low bytes encodes to exactly 1000 bytes, every
\* other one here to more.
LongSigs ==
    {[i \in 1..n |-> b] : n \in {ScratchSize - 12, ScratchSize - 10}, b \in {1, 128}}

RawSignatures == SeqsUpTo(SigBytes, MaxSigLen) \cup LongSigs

\* Errors the service can answer with (parsec_client::error::Error).
ServiceErrors ==
    {"PsaErrorDoesNotExist", "PsaErrorCommunicationFailure", "PsaErrorNotPermitted"}

\* ------------------------------------------------------- algorithm values

\* psa_algorithm::Hash
Hashes ==
    {"Md2", "Md4", "Md5", "Ripemd160", "Sha1", "Sha224", "Sha256", "Sha384",
     "Sha512", "Sha512_224", "Sha512_256", "Sha3_224", "Sha3_256", "Sha3_384",
     "Sha3_512"}

\* psa_algorithm::SignHash: Any, or Specific(hash) written as the hash's name.
SignHashes == {"Any"} \cup Hashes

\* psa_algorithm::AsymmetricSignature: the variants that carry a hash_alg ...
HashedSchemes == {"RsaPkcs1v15Sign", "RsaPss", "Ecdsa", "DeterministicEcdsa"}

\* ... and the ones that do not.
RawSchemes == {"RsaPkcs1v15SignRaw", "EcdsaAny"}

\* psa_algorithm::Algorithm, the variants other than AsymmetricSignature.
OtherFamilies ==
    {"None", "Hash", "Mac", "Cipher", "Aead", "AsymmetricEncryption",
     "KeyAgreement", "KeyDerivation"}

Algorithms ==
    [family : {"AsymmetricSignature"}, scheme : HashedSchemes, hash_alg : SignHashes]
      \cup [family : {"AsymmetricSignature"}, scheme : RawSchemes, hash_alg : {"None"}]
      \cup [family : OtherFamilies, scheme : {"-"}, hash_alg : {"None"}]

NoAlg == [family |-> "Unresolved", scheme |-> "-", hash_alg |-> "None"]

\* Faulty variant: the asymmetric-encryption variant matched as well.
is_asymmetric_signature_wide(a) ==
    a.family \in {"AsymmetricSignature", "AsymmetricEncryption"}

\* The arm `Algorithm::AsymmetricSignature(alg)` of the match on the
\* permitted algorithm.
is_asymmetric_signature(a) == a.family = "AsymmetricSignature"

\* AsymmetricSignature::hash(): None for the raw variants, else Some(hash_alg).
hash(a) == IF a.scheme \in HashedSchemes THEN a.hash_alg ELSE "None"

\* The pattern `Some(SignHash::Specific(hash))`.
is_specific(h) == h \in Hashes

\* AsymmetricSignature::is_ecc_alg()
is_ecc_alg(a) == a.scheme \in {"Ecdsa", "EcdsaAny", "DeterministicEcdsa"}

\* ----------------------------------------------------------------- errors

\* `ToolErrorKind::X.into()`: the tool's own error kinds wrapped in Error.
ToolError(kind) == [kind |-> "ParsecToolError", source |-> kind]

\* The `?` on a collaborator's result: From<parsec_client::error::Error>.
ClientError(e) == [kind |-> "ParsecClientError", source |-> e]

Running == [kind |-> "Running", source |-> "-"]

Ok == [kind |-> "Ok", source |-> "-"]

\* `.unwrap()` on an Err: the thread panics, no Result is returned.
Panic == [kind |-> "Panic", source |-> "unwrap"]

\* ---------------------------------------------------------------- hashing

\* Digest::output_size() of the sha2 hashers.
OutputSize(impl) ==
    CASE impl = "sha2::Sha224" -> 28
      [] impl = "sha2::Sha256" -> 32
      [] impl = "sha2::Sha384" -> 48
      [] impl = "sha2::Sha512" -> 64
      [] OTHER -> 20

NoDigest == [impl |-> "-", input |-> <<>>]

\* DynDigest::update and DynDigest::finalize: the digest is the hasher's
\* function of everything fed to it; its value is kept symbolic.
update(hasher, data) == [hasher EXCEPT !.input = @ \o data]

finalize(hasher) == hasher

DigestLen(d) == OutputSize(d.impl)

hash_data_err == [ok |-> FALSE, runs |-> 0, value |-> NoDigest]

hash_data_run(impl, data) ==
    [ok |-> TRUE, runs |-> 1,
     value |-> finalize(update([impl |-> impl, input |-> <<>>], data))]

\* Faulty variants of hash_data: SHA-1 accepted, SHA-224 served by the
\* SHA-256 hasher, the update call left out.
hash_data_sha1(data, h) ==
    CASE h = "Sha224" -> hash_data_run("sha2::Sha224", data)
      [] h = "Sha256" -> hash_data_run("sha2::Sha256", data)
      [] h = "Sha384" -> hash_data_run("sha2::Sha384", data)
      [] h = "Sha512" -> hash_data_run("sha2::Sha512", data)
      [] h = "Sha1" -> hash_data_run("sha1::Sha1", data)
      [] OTHER -> hash_data_err

hash_data_224as256(data, h) ==
    CASE h = "Sha224" -> hash_data_run("sha2::Sha256", data)
      [] h = "Sha256" -> hash_data_run("sha2::Sha256", data)
      [] h = "Sha384" -> hash_data_run("sha2::Sha384", data)
      [] h = "Sha512" -> hash_data_run("sha2::Sha512", data)
      [] OTHER -> hash_data_err

hash_data_noupdate(data, h) ==
    CASE h = "Sha224" -> hash_data_run("sha2::Sha224", <<>>)
      [] h = "Sha256" -> hash_data_run("sha2::Sha256", <<>>)
      [] h = "Sha384" -> hash_data_run("sha2::Sha384", <<>>)
      [] h = "Sha512" -> hash_data_run("sha2::Sha512", <<>>)
      [] OTHER -> hash_data_err

\* fn hash_data(data, alg): ok, the number of digest computations run, and
\* the digest.
hash_data(data, h) ==
    CASE h = "Sha224" -> hash_data_run("sha2::Sha224", data)
      [] h = "Sha256" -> hash_data_run("sha2::Sha256", data)
      [] h = "Sha384" -> hash_data_run("sha2::Sha384", data)
      [] h = "Sha512" -> hash_data_run("sha2::Sha512", data)
      [] OTHER -> hash_data_err

\* ------------------------------------------------------------------- ASN.1

\* IntegerAsn1::from_bytes_be_unsigned: a 0x00 is put in front when the top
\* bit of the first byte is set; nothing else is changed.
from_bytes_be_unsigned(b) ==
    IF Len(b) > 0 /\ b[1] >= 128 THEN <<0>> \o b ELSE b

\* IntegerAsn1::as_unsigned_bytes_be: one leading 0x00 is dropped from an
\* integer of more than one byte.
as_unsigned_bytes_be(i) ==
    IF Len(i) > 1 /\ i[1] = 0 THEN Tail(i) ELSE i

\* sig[0..sig.len() / 2] and sig[sig.len() / 2..]
SplitR(s) == SubSeq(s, 1, Len(s) \div 2)

\* Faulty variant: the first half taken twice.
SplitS_first(s) == SubSeq(s, 1, Len(s) \div 2)

SplitS(s) == SubSeq(s, Len(s) \div 2 + 1, Len(s))

\* DER definite length.
DerLength(n) ==
    IF n < 128 THEN <<n>>
    ELSE IF n < 256 THEN <<129, n>>
    ELSE <<130, n \div 256, n % 256>>

DerInteger(i) == <<2>> \o DerLength(Len(i)) \o i

\* The serialization of EccSignature { r, s }: SEQUENCE { INTEGER, INTEGER }.
DerEccSignature(r, s) ==
    LET body == DerInteger(r) \o DerInteger(s)
    IN  <<48>> \o DerLength(Len(body)) \o body

\* picky_asn1_der::to_bytes(&value, &mut buf): writes into the caller's
\* buffer and answers the number of bytes written, or an error when the
\* buffer is too short.
to_bytes(r, s, buf) ==
    LET enc == DerEccSignature(r, s)
    IN  IF Len(enc) <= Len(buf)
        THEN [ok |-> TRUE, size |-> Len(enc),
              buf |-> enc \o SubSeq(buf, Len(enc) + 1, Len(buf))]
        ELSE [ok |-> FALSE, size |-> 0, buf |-> buf]

\* Vec::truncate
truncate(v, n) == SubSeq(v, 1, n)

\* The body of `if alg.is_ecc_alg() && self.encode_asn1 { ... }`.
Asn1Encode(s) ==
    LET asn1_signature == [i \in 1..ScratchSize |-> 0]
        res == to_bytes(from_bytes_be_unsigned(SplitR(s)),
                        from_bytes_be_unsigned(SplitS(s)),
                        asn1_signature)
    IN  [ok |-> res.ok, sig |-> truncate(res.buf, res.size)]

\* Faulty variant: the scheme is not looked at.
ShouldEncode_flag(a, flag) == flag

\* The condition of that `if`.
ShouldEncode(a, flag) == is_ecc_alg(a) /\ flag

\* Reading the structure back (the Deserialize side of EccSignature).
DerReadLength(bs, pos) ==
    IF bs[pos] < 128 THEN [len |-> bs[pos], next |-> pos + 1]
    ELSE IF bs[pos] = 129 THEN [len |-> bs[pos + 1], next |-> pos + 2]
    ELSE [len |-> bs[pos + 1] * 256 + bs[pos + 2], next |-> pos + 3]

DerDecodeEccSignature(bs) ==
    LET h  == DerReadLength(bs, 2)
        rl == DerReadLength(bs, h.next + 1)
        r  == SubSeq(bs, rl.next, rl.next + rl.len - 1)
        sp == rl.next + rl.len
        sl == DerReadLength(bs, sp + 1)
        s  == SubSeq(bs, sl.next, sl.next + sl.len - 1)
    IN  [ok |-> /\ bs[1] = 48
                /\ bs[h.next] = 2
                /\ bs[sp] = 2
                /\ h.next + h.len - 1 = Len(bs)
                /\ sl.next + sl.len - 1 = Len(bs),
         r |-> r, s |-> s]

\* R || S as unsigned big-endian byte strings.
ConcatRS(d) == as_unsigned_bytes_be(d.r) \o as_unsigned_bytes_be(d.s)

\* ------------------------------------------------------------------ base64

B64Alphabet ==
    <<"A", "B", "C", "D", "E", "F", "G", "H", "I", "J", "K", "L", "M", "N", "O", "P",
      "Q", "R", "S", "T", "U", "V", "W", "X", "Y", "Z", "a", "b", "c", "d", "e", "f",
      "g", "h", "i", "j", "k", "l", "m", "n", "o", "p", "q", "r", "s", "t", "u", "v",
      "w", "x", "y", "z", "0", "1", "2", "3", "4", "5", "6", "7", "8", "9", "+", "/">>

B64Char(n) == B64Alphabet[n + 1]

\* base64::encode: standard alphabet, with padding; the result is the
\* sequence of its characters, four for every group of up to three bytes.
base64_encode(bs) ==
    LET n == Len(bs)
        byte(i) == IF i <= n THEN bs[i] ELSE 0
    IN  [j \in 1..(4 * ((n + 2) \div 3)) |->
           LET g  == (j - 1) \div 4
               k  == (j - 1) % 4
               b1 == byte(3 * g + 1)
               b2 == byte(3 * g + 2)
               b3 == byte(3 * g + 3)
           IN  CASE k = 0 -> B64Char(b1 \div 4)
                 [] k = 1 -> B64Char((b1 % 4) * 16 + b2 \div 16)
                 [] k = 2 -> IF 3 * g + 2 > n THEN "="
                             ELSE B64Char((b2 % 16) * 4 + b3 \div 64)
                 [] OTHER -> IF 3 * g + 3 > n THEN "=" ELSE B64Char(b3 % 64)]

\* ------------------------------------------------------------------- state

VARIABLES
    key_name,     \* self.key_name
    input_data,   \* self.input_data, as bytes
    encode_asn1,  \* self.encode_asn1
    pc,           \* position of the run in Sign::run
    alg,          \* the permitted algorithm the lookup answered
    digest,       \* `hash`, the digest handed to the signing call
    sig,          \* the bytes psa_sign_hash answered
    signature,    \* the bytes that are base64-encoded
    stdout,       \* the lines printed
    result,       \* what the run ended with
    nLookup,      \* calls of key_attributes
    nDigest,      \* digest computations
    nSign,        \* calls of psa_sign_hash
    lookupArg,    \* the key name key_attributes was called with
    lookupRet,    \* what key_attributes answered
    signArgs,     \* the arguments psa_sign_hash was called with
    signRet,      \* what psa_sign_hash answered
    reencoded     \* whether the ASN.1 branch was taken

vars ==
    <<key_name, input_data, encode_asn1, pc, alg, digest, sig, signature, stdout,
      result, nLookup, nDigest, nSign, lookupArg, lookupRet, signArgs, signRet,
      reencoded>>

inputs == <<key_name, input_data, encode_asn1>>

NoArgs == [key |-> "-", hash |-> NoDigest, alg |-> NoAlg]

Init ==
    /\ key_name \in KeyNames
    /\ input_data \in Messages
    /\ encode_asn1 \in BOOLEAN
    /\ pc = "key_attributes"
    /\ alg = NoAlg
    /\ digest = NoDigest
    /\ sig = <<>>
    /\ signature = <<>>
    /\ stdout = <<>>
    /\ result = Running
    /\ nLookup = 0
    /\ nDigest = 0
    /\ nSign = 0
    /\ lookupArg = "-"
    /\ lookupRet = "NotCalled"
    /\ signArgs = NoArgs
    /\ signRet = "NotCalled"
    /\ reencoded = FALSE

\* ----------------------------------------------------------------- actions

\* basic_client.key_attributes(&self.key_name)? answers the key's policy.
KeyAttributesOk ==
    /\ pc = "key_attributes"
    /\ \E a \in Algorithms : alg' = a
    /\ nLookup' = nLookup + 1
    /\ lookupArg' = key_name
    /\ lookupRet' = "Ok"
    /\ pc' = "match"
    /\ UNCHANGED <<inputs, digest, sig, signature, stdout, result, nDigest, nSign,
                   signArgs, signRet, reencoded>>

\* Faulty variant: the lookup is tried again after a failure.
KeyAttributesErr_retry ==
    /\ pc = "key_attributes"
    /\ \E e \in ServiceErrors : lookupRet' = e
    /\ nLookup' = nLookup + 1
    /\ lookupArg' = key_name
    /\ pc' = "key_attributes"
    /\ UNCHANGED <<inputs, alg, digest, sig, signature, stdout, result, nDigest,
                   nSign, signArgs, signRet, reencoded>>

\* basic_client.key_attributes(&self.key_name)? fails: `?` returns the error.
KeyAttributesErr ==
    /\ pc = "key_attributes"
    /\ \E e \in ServiceErrors :
         /\ lookupRet' = e
         /\ result' = ClientError(e)
    /\ nLookup' = nLookup + 1
    /\ lookupArg' = key_name
    /\ pc' = "done"
    /\ UNCHANGED <<inputs, alg, digest, sig, signature, stdout, nDigest, nSign,
                   signArgs, signRet, reencoded>>

\* match alg { other => return Err(WrongKeyAlgorithm) }
MatchOther ==
    /\ pc = "match"
    /\ ~is_asymmetric_signature(alg)
    /\ result' = ToolError("WrongKeyAlgorithm")
    /\ pc' = "done"
    /\ UNCHANGED <<inputs, alg, digest, sig, signature, stdout, nLookup, nDigest,
                   nSign, lookupArg, lookupRet, signArgs, signRet, reencoded>>

\* match alg.hash() { _ => return Err(NotSupported) }
MatchNoSpecificHash ==
    /\ pc = "match"
    /\ is_asymmetric_signature(alg)
    /\ ~is_specific(hash(alg))
    /\ result' = ToolError("NotSupported")
    /\ pc' = "done"
    /\ UNCHANGED <<inputs, alg, digest, sig, signature, stdout, nLookup, nDigest,
                   nSign, lookupArg, lookupRet, signArgs, signRet, reencoded>>

\* Some(SignHash::Specific(hash)) => hash_data(..)? where hash_data fails.
HashDataErr ==
    /\ pc = "match"
    /\ is_asymmetric_signature(alg)
    /\ is_specific(hash(alg))
    /\ LET h == hash_data(input_data, hash(alg))
       IN  /\ ~h.ok
           /\ nDigest' = nDigest + h.runs
    /\ result' = ToolError("NotSupported")
    /\ pc' = "done"
    /\ UNCHANGED <<inputs, alg, digest, sig, signature, stdout, nLookup, nSign,
                   lookupArg, lookupRet, signArgs, signRet, reencoded>>

\* Some(SignHash::Specific(hash)) => hash_data(..)? where hash_data succeeds.
HashDataOk ==
    /\ pc = "match"
    /\ is_asymmetric_signature(alg)
    /\ is_specific(hash(alg))
    /\ LET h == hash_data(input_data, hash(alg))
       IN  /\ h.ok
           /\ nDigest' = nDigest + h.runs
           /\ digest' = h.value
    /\ pc' = "psa_sign_hash"
    /\ UNCHANGED <<inputs, alg, sig, signature, stdout, result, nLookup, nSign,
                   lookupArg, lookupRet, signArgs, signRet, reencoded>>

\* The arguments of basic_client.psa_sign_hash(self.key_name.clone(), &hash, alg).
SignCallArgs == [key |-> key_name, hash |-> digest, alg |-> alg]

\* psa_sign_hash answers a signature.
PsaSignHashOk ==
    /\ pc = "psa_sign_hash"
    /\ \E s \in RawSignatures : sig' = s
    /\ nSign' = nSign + 1
    /\ signArgs' = SignCallArgs
    /\ signRet' = "Ok"
    /\ pc' = "post"
    /\ UNCHANGED <<inputs, alg, digest, signature, stdout, result, nLookup, nDigest,
                   lookupArg, lookupRet, reencoded>>

\* psa_sign_hash fails: `?` returns the error.
PsaSignHashErr ==
    /\ pc = "psa_sign_hash"
    /\ \E e \in ServiceErrors :
         /\ signRet' = e
         /\ result' = ClientError(e)
    /\ nSign' = nSign + 1
    /\ signArgs' = SignCallArgs
    /\ pc' = "done"
    /\ UNCHANGED <<inputs, alg, digest, sig, signature, stdout, nLookup, nDigest,
                   lookupArg, lookupRet, reencoded>>

\* The condition is false: `sig` is the signature as it came.
PostRaw ==
    /\ pc = "post"
    /\ ~ShouldEncode(alg, encode_asn1)
    /\ signature' = sig
    /\ pc' = "present"
    /\ UNCHANGED <<inputs, alg, digest, sig, stdout, result, nLookup, nDigest,
                   nSign, lookupArg, lookupRet, signArgs, signRet, reencoded>>

\* The condition is true and to_bytes succeeds: sig = asn1_signature.
PostAsn1 ==
    /\ pc = "post"
    /\ ShouldEncode(alg, encode_asn1)
    /\ LET e == Asn1Encode(sig)
       IN  /\ e.ok
           /\ signature' = e.sig
    /\ reencoded' = TRUE
    /\ pc' = "present"
    /\ UNCHANGED <<inputs, alg, digest, sig, stdout, result, nLookup, nDigest,
                   nSign, lookupArg, lookupRet, signArgs, signRet>>

\* The condition is true and to_bytes fails: .unwrap() panics.
PostAsn1Panic ==
    /\ pc = "post"
    /\ ShouldEncode(alg, encode_asn1)
    /\ ~Asn1Encode(sig).ok
    /\ reencoded' = TRUE
    /\ result' = Panic
    /\ pc' = "done"
    /\ UNCHANGED <<inputs, alg, digest, sig, signature, stdout, nLookup, nDigest,
                   nSign, lookupArg, lookupRet, signArgs, signRet>>

\* Faulty variant: Ok(()) without the println!.
Present_silent ==
    /\ pc = "present"
    /\ result' = Ok
    /\ pc' = "done"
    /\ UNCHANGED <<inputs, alg, digest, sig, signature, stdout, nLookup, nDigest,
                   nSign, lookupArg, lookupRet, signArgs, signRet, reencoded>>

\* println!("{}", base64::encode(&signature)); Ok(())
Present ==
    /\ pc = "present"
    /\ stdout' = Append(stdout, base64_encode(signature))
    /\ result' = Ok
    /\ pc' = "done"
    /\ UNCHANGED <<inputs, alg, digest, sig, signature, nLookup, nDigest, nSign,
                   lookupArg, lookupRet, signArgs, signRet, reencoded>>

Next ==
    \/ KeyAttributesOk
    \/ KeyAttributesErr
    \/ MatchOther
    \/ MatchNoSpecificHash
    \/ HashDataErr
    \/ HashDataOk
    \/ PsaSignHashOk
    \/ PsaSignHashErr
    \/ PostRaw
    \/ PostAsn1
    \/ PostAsn1Panic
    \/ Present

Spec == Init /\ [][Next]_vars

\* ------------------------------------------------------------- properties

\* The run has ended in the tool's own error `kind`.
EndedWith(kind) == result = [kind |-> "ParsecToolError", source |-> kind]

\* The signing call answered and the re-encoding condition of the claims
\* (elliptic-curve scheme and encode_asn1) is met.
EccAndFlag == encode_asn1 /\ alg.scheme \in {"Ecdsa", "EcdsaAny", "DeterministicEcdsa"}

\* The run holds the bytes it is going to print, or has printed them.
HasSignature == pc = "present" \/ (pc = "done" /\ result = Ok)

\* C1: once the lookup has answered an algorithm that is not an
\* asymmetric-signature variant, the run does nothing but end with
\* WrongKeyAlgorithm: no digest is computed, psa_sign_hash is not called and
\* nothing is printed, whatever the message and the encode_asn1 flag.
C1_WrongKeyAlgorithm ==
    (lookupRet = "Ok" /\ alg.family # "AsymmetricSignature") =>
        /\ nDigest = 0
        /\ nSign = 0
        /\ stdout = <<>>
        /\ pc \in {"match", "done"}
        /\ (pc = "done" => EndedWith("WrongKeyAlgorithm"))

C1_Witness ==
    /\ pc = "done"
    /\ lookupRet = "Ok"
    /\ alg.family = "Cipher"
    /\ input_data # <<>>
    /\ encode_asn1
    /\ EndedWith("WrongKeyAlgorithm")
    /\ nDigest = 0
    /\ nSign = 0

\* C2: a signature algorithm that names no specific hash (a raw scheme, or
\* the wildcard) or a hash outside SHA-224/256/384/512 ends the run with
\* NotSupported; no digest is computed and psa_sign_hash is not called.
C2_UnsupportedHash ==
    (/\ lookupRet = "Ok"
     /\ alg.family = "AsymmetricSignature"
     /\ \/ alg.scheme \in {"RsaPkcs1v15SignRaw", "EcdsaAny"}
        \/ alg.hash_alg \notin {"Sha224", "Sha256", "Sha384", "Sha512"}) =>
        /\ nDigest = 0
        /\ nSign = 0
        /\ stdout = <<>>
        /\ pc \in {"match", "done"}
        /\ (pc = "done" => EndedWith("NotSupported"))

C2_Witness ==
    /\ pc = "done"
    /\ alg.family = "AsymmetricSignature"
    /\ alg.scheme = "Ecdsa"
    /\ alg.hash_alg = "Any"
    /\ EndedWith("NotSupported")
    /\ nDigest = 0
    /\ nSign = 0

\* C3: the ASN.1 branch is taken exactly when encode_asn1 is set and the
\* scheme is an elliptic-curve one, and then the bytes printed are a DER
\* SEQUENCE of two INTEGERs; in every other run that gets as far as having a
\* signature, the bytes that are base64-encoded are the bytes psa_sign_hash
\* answered, and the line printed is their base64 form.
C3_ReencodeIffEccAndFlag ==
    HasSignature =>
        /\ reencoded <=> EccAndFlag
        /\ EccAndFlag => DerDecodeEccSignature(signature).ok
        /\ ~EccAndFlag => signature = sig
        /\ (~EccAndFlag /\ pc = "done") => stdout = <<base64_encode(sig)>>

C3_Witness ==
    /\ pc = "done"
    /\ result = Ok
    /\ alg.scheme = "RsaPss"
    /\ encode_asn1
    /\ Len(sig) = 3
    /\ signature = sig
    /\ ~reencoded
    /\ stdout = <<base64_encode(sig)>>

\* The two halves of the raw signature, cut at len/2.
HalfR == SubSeq(sig, 1, Len(sig) \div 2)

HalfS == SubSeq(sig, Len(sig) \div 2 + 1, Len(sig))

\* The re-encoded signature read back and R, S put together again.
Recovered == ConcatRS(DerDecodeEccSignature(signature))

\* C4 as stated: for every even-length raw signature that was re-encoded,
\* decoding the structure and concatenating R and S gives the raw
\* signature back, byte for byte.
C4_RoundTripExact ==
    (HasSignature /\ reencoded /\ Len(sig) % 2 = 0) =>
        /\ DerDecodeEccSignature(signature).ok
        /\ Recovered = sig

\* C4 as amended: the round trip is exact for every even-length raw
\* signature that was re-encoded and in which neither half is longer than one byte and starts with
\* 0x00.
C4_RoundTripNoLeadingZero ==
    (/\ HasSignature
     /\ reencoded
     /\ Len(sig) % 2 = 0
     /\ ~(Len(HalfR) > 1 /\ HalfR[1] = 0)
     /\ ~(Len(HalfS) > 1 /\ HalfS[1] = 0)) =>
        /\ DerDecodeEccSignature(signature).ok
        /\ Recovered = sig

C4_Witness ==
    /\ pc = "done"
    /\ result = Ok
    /\ reencoded
    /\ Len(sig) = 4
    /\ sig[1] = 128
    /\ sig[3] = 1
    /\ Len(signature) = 11
    /\ Recovered = sig

\* C5: at most one line is ever printed; a line is printed only by a run
\* that has ended in success, and it is the base64 form of the whole
\* signature; a run that has ended has printed its line exactly when it
\* succeeded, so a run that ended otherwise has printed nothing.
C5_NoPartialOutput ==
    /\ Len(stdout) <= 1
    /\ stdout # <<>> =>
         /\ pc = "done"
         /\ result = Ok
         /\ stdout[1] = base64_encode(signature)
         /\ Len(stdout[1]) = 4 * ((Len(signature) + 2) \div 3)
    /\ pc = "done" => (result = Ok <=> Len(stdout) = 1)
    /\ pc # "done" => result = Running

C5_Witness ==
    /\ pc = "done"
    /\ result = Ok
    /\ Len(sig) = 2
    /\ Len(stdout) = 1
    /\ Len(stdout[1]) = 4

\* C6: key_attributes and psa_sign_hash are each called at most once; when
\* the lookup fails the run ends with the error it answered, without
\* hashing or signing; when the signing call fails the run ends with the
\* error it answered, without re-encoding and without output.
C6_FailuresPropagated ==
    /\ nLookup <= 1
    /\ nSign <= 1
    /\ lookupRet \in ServiceErrors =>
         /\ pc = "done"
         /\ result.kind = "ParsecClientError"
         /\ result.source = lookupRet
         /\ nDigest = 0
         /\ nSign = 0
         /\ stdout = <<>>
    /\ signRet \in ServiceErrors =>
         /\ pc = "done"
         /\ result.kind = "ParsecClientError"
         /\ result.source = signRet
         /\ ~reencoded
         /\ signature = <<>>
         /\ stdout = <<>>

C6_Witness ==
    /\ pc = "done"
    /\ lookupRet = "Ok"
    /\ signRet = "PsaErrorCommunicationFailure"
    /\ result.source = "PsaErrorCommunicationFailure"
    /\ nLookup = 1
    /\ nSign = 1

\* C7: every run ends in success or in one of the listed error kinds, and
\* a re-encoding that does not fit the scratch buffer ends the run with the
\* typed InternalEncodingError.
C7_TypedEncodingError ==
    pc = "done" =>
        /\ result.kind \in {"Ok", "ParsecToolError", "ParsecClientError"}
        /\ (/\ signRet = "Ok"
            /\ EccAndFlag
            /\ Len(DerEccSignature(from_bytes_be_unsigned(HalfR),
                                   from_bytes_be_unsigned(HalfS))) > ScratchSize) =>
             EndedWith("InternalEncodingError")

\* C8: when re-encoding applies, R and S are the two equal halves of the
\* raw signature, and a raw signature of odd length ends the run with an
\* internal encoding error and no encoded signature.
C8_OddLengthRejected ==
    (signRet = "Ok" /\ EccAndFlag /\ pc \in {"present", "done"}) =>
        IF Len(sig) % 2 = 0
        THEN Len(HalfR) = Len(HalfS) /\ HalfR \o HalfS = sig
        ELSE EndedWith("InternalEncodingError") /\ signature = <<>>

\* C9: psa_sign_hash is called only after the lookup succeeded, the
\* algorithm was found to be an asymmetric signature and one digest was
\* computed; its arguments are the key name of the lookup, the digest of
\* the whole message under the hash the algorithm names, and the algorithm
\* as the lookup answered it; a line is printed only after it succeeded.
C9_SignCallOrderAndArgs ==
    /\ (pc = "psa_sign_hash" \/ nSign > 0) =>
         /\ lookupRet = "Ok"
         /\ nLookup = 1
         /\ lookupArg = key_name
         /\ alg.family = "AsymmetricSignature"
         /\ nDigest = 1
         /\ digest.input = input_data
         /\ digest.impl = (CASE alg.hash_alg = "Sha224" -> "sha2::Sha224"
                             [] alg.hash_alg = "Sha256" -> "sha2::Sha256"
                             [] alg.hash_alg = "Sha384" -> "sha2::Sha384"
                             [] alg.hash_alg = "Sha512" -> "sha2::Sha512"
                             [] OTHER -> "-")
    /\ nSign > 0 =>
         /\ signArgs.key = lookupArg
         /\ signArgs.hash = digest
         /\ signArgs.alg = alg
         /\ alg \in Algorithms
    /\ nSign = 0 => (signRet = "NotCalled" /\ signArgs = NoArgs)
    /\ stdout # <<>> => signRet = "Ok"

C9_Witness ==
    /\ pc = "done"
    /\ result = Ok
    /\ nSign = 1
    /\ input_data # <<>>
    /\ alg.hash_alg = "Sha384"
    /\ signArgs.key = "k2"
    /\ signArgs.hash.input = input_data
    /\ stdout # <<>>

\* C10: for every message, the empty one included, and each of SHA-224,
\* SHA-256, SHA-384 and SHA-512, hash_data succeeds with a digest of 28,
\* 32, 48 and 64 bytes.
C10_DigestLength ==
    (/\ lookupRet = "Ok"
     /\ alg.family = "AsymmetricSignature"
     /\ alg.scheme \in HashedSchemes
     /\ alg.hash_alg \in {"Sha224", "Sha256", "Sha384", "Sha512"}
     /\ pc # "match") =>
        /\ ~EndedWith("NotSupported")
        /\ nDigest = 1
        /\ DigestLen(digest) = (CASE alg.hash_alg = "Sha224" -> 28
                                  [] alg.hash_alg = "Sha256" -> 32
                                  [] alg.hash_alg = "Sha384" -> 48
                                  [] alg.hash_alg = "Sha512" -> 64)

C10_Witness ==
    /\ pc = "psa_sign_hash"
    /\ alg.hash_alg = "Sha224"
    /\ input_data = <<>>
    /\ digest.input = <<>>
    /\ DigestLen(digest) = 28

====
